---- MODULE Spec2Model ----
(***************************************************************************)
(* A model of the sales report crate: src/src/report.rs (Report, Record,   *)
(* Product, Display for Report) and src/src/usd.rs (Usd).                  *)
(*                                                                         *)
(* A Rust String is a sequence of one-character strings, so that parsing,  *)
(* splitting, matching and ordering act on the characters as the code does.*)
(* An Option is a sequence of length 0 (None) or 1 (Some).                 *)
(***************************************************************************)
EXTENDS Integers, Sequences, FiniteSets, Bags, TLC

\* ------------------------------------------------------------------ bounds
\* At most this many group rules are added to one Report.
MaxGroups == 2
\* At most this many rows are read from one CSV file.
MaxRows == 2
\* At most this many records are folded into one Report.
MaxRecords == 3
\* At most this many lines are read from one group configuration file.
MaxLines == 2

\* ------------------------------------------------------------------ i32
\* The largest i32; Usd wraps an i32, and units and quantities are i32.
MaxI32 == 2147483647
MinI32 == -MaxI32 - 1

\* a + b on i32: the two's-complement result and whether it overflowed.
I32Add(a, b) ==
    IF b > 0 /\ a > MaxI32 - b
    THEN [val |-> (a + MinI32) + (b + MinI32), ovf |-> TRUE]
    ELSE IF b < 0 /\ a < MinI32 - b
    THEN [val |-> (a - MinI32) + (b - MinI32), ovf |-> TRUE]
    ELSE [val |-> a + b, ovf |-> FALSE]

\* Whether a * n leaves the i32 range.
I32MulOverflows(a, n) ==
    IF a = 0 \/ n = 0 THEN FALSE
    ELSE IF n = -1 THEN a = MinI32
    ELSE IF a = -1 THEN n = MinI32
    ELSE IF a > 0 /\ n > 0 THEN a > MaxI32 \div n
    ELSE IF a < 0 /\ n < 0
    THEN a = MinI32 \/ n = MinI32 \/ (-a) > MaxI32 \div (-n)
    ELSE IF a > 0 THEN a > MinI32 \div n
    ELSE n > MinI32 \div a

\* Byte k of the two's-complement form of the i32 a.
I32Byte(a, k) == (a \div (256 ^ k)) % 256

\* a * n modulo 2^32 as an i32: the low four bytes of the product.
I32WrappingMul(a, n) ==
    LET c0 == I32Byte(a, 0) * I32Byte(n, 0)
        c1 == I32Byte(a, 0) * I32Byte(n, 1) + I32Byte(a, 1) * I32Byte(n, 0)
              + (c0 \div 256)
        c2 == I32Byte(a, 0) * I32Byte(n, 2) + I32Byte(a, 1) * I32Byte(n, 1)
              + I32Byte(a, 2) * I32Byte(n, 0) + (c1 \div 256)
        c3 == I32Byte(a, 0) * I32Byte(n, 3) + I32Byte(a, 1) * I32Byte(n, 2)
              + I32Byte(a, 2) * I32Byte(n, 1) + I32Byte(a, 3) * I32Byte(n, 0)
              + (c2 \div 256)
        top == IF (c3 % 256) >= 128 THEN (c3 % 256) - 256 ELSE (c3 % 256)
    IN  (c0 % 256) + 256 * (c1 % 256) + 65536 * (c2 % 256) + 16777216 * top

\* a * n on i32: the two's-complement result and whether it overflowed.
I32Mul(a, n) == [val |-> I32WrappingMul(a, n), ovf |-> I32MulOverflows(a, n)]

\* ------------------------------------------------------------------ strings
None == << >>
Some(x) == << x >>

\* The byte of each character the model's strings use (String's Ord compares bytes).
Byte ==
    (" " :> 32) @@ ("(" :> 40) @@ ("," :> 44) @@ ("-" :> 45) @@ ("." :> 46) @@
    ("0" :> 48) @@ ("1" :> 49) @@ ("2" :> 50) @@ ("3" :> 51) @@ ("4" :> 52) @@
    ("5" :> 53) @@ ("6" :> 54) @@ ("7" :> 55) @@ ("8" :> 56) @@ ("9" :> 57) @@
    ("A" :> 65) @@ ("B" :> 66) @@ ("a" :> 97) @@ ("b" :> 98) @@ ("c" :> 99) @@
    ("e" :> 101) @@ ("f" :> 102) @@ ("i" :> 105) @@ ("m" :> 109) @@
    ("o" :> 111) @@ ("r" :> 114) @@ ("t" :> 116) @@ ("x" :> 120) @@ ("|" :> 124)

\* a < b in String's ordering: lexicographic on bytes, a proper prefix first.
StrLess(a, b) ==
    \E i \in 1..Len(b) :
        /\ \A j \in 1..(i - 1) : j <= Len(a) /\ a[j] = b[j]
        /\ (i > Len(a) \/ (a[i] # b[i] /\ Byte[a[i]] < Byte[b[i]]))

\* The positions at which pat occurs in s (0-based offsets).
Occurrences(s, pat) ==
    {i \in 0..(Len(s) - Len(pat)) : SubSeq(s, i + 1, i + Len(pat)) = pat}

Min(S) == CHOOSE x \in S : \A y \in S : x <= y

\* str::split_once: the parts before and after the first occurrence of delim.
split_once(s, delim) ==
    LET occ == Occurrences(s, delim)
    IN  IF occ = {} THEN None
        ELSE LET i == Min(occ)
             IN  Some(<<SubSeq(s, 1, i), SubSeq(s, i + Len(delim) + 1, Len(s))>>)

\* str::replace with a set of characters and an empty replacement.
RECURSIVE replace(_, _)
replace(s, chars) ==
    IF s = << >> THEN << >>
    ELSE (IF Head(s) \in chars THEN << >> ELSE <<Head(s)>>) \o replace(Tail(s), chars)

IsDigit(c) == c \in {"0", "1", "2", "3", "4", "5", "6", "7", "8", "9"}

\* The digits of s folded into acc (negated when neg), or None on a character
\* that is no digit or on leaving the i32 range.
RECURSIVE ParseDigits(_, _, _)
ParseDigits(s, acc, neg) ==
    IF s = << >> THEN Some(acc)
    ELSE IF ~IsDigit(Head(s)) THEN None
    ELSE LET d == Byte[Head(s)] - 48
         IN  IF neg
             THEN IF acc < -(MaxI32 \div 10) \/ acc * 10 < MinI32 + d
                  THEN None
                  ELSE ParseDigits(Tail(s), acc * 10 - d, neg)
             ELSE IF acc > MaxI32 \div 10 \/ acc * 10 > MaxI32 - d
                  THEN None
                  ELSE ParseDigits(Tail(s), acc * 10 + d, neg)

\* str::parse::<i32>: an optional sign and at least one digit.
parse_i32(s) ==
    IF s = << >> THEN None
    ELSE IF Head(s) \in {"+", "-"}
    THEN (IF Len(s) = 1 THEN None ELSE ParseDigits(Tail(s), 0, Head(s) = "-"))
    ELSE ParseDigits(s, 0, FALSE)

\* ------------------------------------------------------------------ usd
\* Usd::from_str: drop every '.' and ',' and parse what is left as cents.
from_str(s) == parse_i32(replace(s, {".", ","}))

\* Usd += Usd.
add_assign(self, rhs) == I32Add(self, rhs)

\* Usd * i32.
mul(self, rhs) == I32Mul(self, rhs)

\* ------------------------------------------------------------------ regex
\* Regex::new on the patterns the model uses: literal characters, and "(",
\* which opens a group that no character of the model closes (a syntax error).
RegexNew(regex_str) ==
    IF \E i \in 1..Len(regex_str) : regex_str[i] = "("
    THEN None
    ELSE Some(regex_str)

\* Regex::is_match for a literal pattern: an unanchored search.
is_match(regex, text) == Occurrences(text, regex) # {}

\* ------------------------------------------------------------------ state
VARIABLES
    groups,           \* Report.groups: sequence of [name, regex]
    products,         \* Report.products: display name -> [units, revenue]
    units,            \* Report.units
    revenue,          \* Report.revenue (cents)
    sort_by_revenue,  \* Report.sort_by_revenue
    overflow_checks,  \* whether the build panics on integer overflow (else it wraps)
    pc,               \* "idle", "read_groups", "read_csv" or "panicked"; while a
                      \* call runs it borrows the report (&mut self), so no
                      \* other operation starts, and a panic ends the program
    rdr,              \* the open file of the running read_groups / read_csv
    entry,            \* groups, products, units, revenue when the running call began
    ledger,           \* the bag of records folded in so far, with their display names
    ret               \* the last call and what it returned

vars == <<groups, products, units, revenue, sort_by_revenue, overflow_checks,
          pc, rdr, entry, ledger, ret>>

\* Report::new: Default for every field.
Init ==
    /\ groups = << >>
    /\ products = << >>
    /\ units = 0
    /\ revenue = 0
    /\ sort_by_revenue = FALSE
    /\ overflow_checks \in BOOLEAN
    /\ pc = "idle"
    /\ rdr = << >>
    /\ entry = << >>
    /\ ledger = EmptyBag
    /\ ret = [op |-> "new"]

\* ------------------------------------------------------------------ inputs
\* Arguments of add_group, name and regex_str: ("A", "foo"), ("B", "foobar")
\* and ("B", "("), whose pattern does not compile.
GroupArgs ==
    { <<<<"A">>, <<"f", "o", "o">>>>,
      <<<<"B">>, <<"f", "o", "o", "b", "a", "r">>>>,
      <<<<"B">>, <<"(">>>> }

\* Lines of a group configuration file: "A | foo", "B | foobar", "B | (",
\* and "A|foo", which lacks the " | " delimiter.
ConfigLines ==
    { <<"A", " ", "|", " ", "f", "o", "o">>,
      <<"B", " ", "|", " ", "f", "o", "o", "b", "a", "r">>,
      <<"B", " ", "|", " ", "(">>,
      <<"A", "|", "f", "o", "o">> }

\* Line item names: "foo", "bar", "foobar item".
ItemNames ==
    { <<"f", "o", "o">>, <<"b", "a", "r">>,
      <<"f", "o", "o", "b", "a", "r", " ", "i", "t", "e", "m">> }

\* Column names of Record: each field's serde rename and alias.
QtyColumns == {"Lineitem quantity", "Quantity"}
NameColumns == {"Lineitem name", "Item Name"}
PriceColumns == {"Lineitem price", "Item Price ($)"}

\* Header rows of CSV files: the two export formats Record names, and one
\* that has no quantity column (one row per unit sold).
Headers ==
    { <<"Lineitem quantity", "Lineitem name", "Lineitem price">>,
      <<"Item Name", "Quantity", "Item Price ($)">>,
      <<"Order ID", "Lineitem name", "Lineitem price">> }

\* Quantity, item name and price as they stand in a row: 2 x foo at 5.00,
\* 1 x foo at 5.00, 1 x foobar item at 1,000.00,
\* 2 x bar at 21,474,836.47, 2147483647 x bar at 0.00, -1 x foo at 5.00 (a
\* return), and two rows that do not parse: quantity "x", price "abc".
Cells ==
    { [qty |-> <<"2">>, name |-> <<"f", "o", "o">>, price |-> <<"5", ".", "0", "0">>],
      [qty |-> <<"1">>, name |-> <<"f", "o", "o">>, price |-> <<"5", ".", "0", "0">>],
      [qty |-> <<"-", "1">>, name |-> <<"f", "o", "o">>,
       price |-> <<"5", ".", "0", "0">>],
      [qty |-> <<"1">>,
       name |-> <<"f", "o", "o", "b", "a", "r", " ", "i", "t", "e", "m">>,
       price |-> <<"1", ",", "0", "0", "0", ".", "0", "0">>],
      [qty |-> <<"2">>, name |-> <<"b", "a", "r">>,
       price |-> <<"2", "1", ",", "4", "7", "4", ",", "8", "3", "6", ".", "4", "7">>],
      [qty |-> <<"2", "1", "4", "7", "4", "8", "3", "6", "4", "7">>,
       name |-> <<"b", "a", "r">>, price |-> <<"0", ".", "0", "0">>],
      [qty |-> <<"x">>, name |-> <<"f", "o", "o">>, price |-> <<"5", ".", "0", "0">>],
      [qty |-> <<"1">>, name |-> <<"f", "o", "o">>, price |-> <<"a", "b", "c">>] }

\* The rows a file with these headers can hold: the cells laid out under the
\* headers (an order id where the header asks for one), and a row that is
\* one field short.
RowsOf(headers) ==
    { [i \in 1..Len(headers) |->
          IF headers[i] \in QtyColumns THEN c.qty
          ELSE IF headers[i] \in NameColumns THEN c.name
          ELSE IF headers[i] \in PriceColumns THEN c.price
          ELSE <<"1", "0", "0", "1">>] : c \in Cells }
    \cup { <<<<"f", "o", "o">>, <<"5", ".", "0", "0">>>> }

\* ------------------------------------------------------------------ groups
\* Report::product_group with the last matching group in place of the first.
RECURSIVE product_group_last(_, _)
product_group_last(gs, line_item) ==
    IF gs = << >> THEN None
    ELSE IF is_match(gs[Len(gs)].regex, line_item) THEN Some(gs[Len(gs)].name)
    ELSE product_group_last(SubSeq(gs, 1, Len(gs) - 1), line_item)

\* Report::product_group: iter().find(is_match).map(name).
RECURSIVE product_group(_, _)
product_group(gs, line_item) ==
    IF gs = << >> THEN None
    ELSE IF is_match(Head(gs).regex, line_item) THEN Some(Head(gs).name)
    ELSE product_group(Tail(gs), line_item)

\* Report::add_group on the rule list gs: the new list, or None when the
\* pattern does not compile (the ? leaves before push is called).
pushed_group(gs, name, regex_str) ==
    LET regex == RegexNew(regex_str)
    IN  IF regex = None THEN None
        ELSE Some(Append(gs, [name |-> name, regex |-> regex[1]]))

Snapshot == [groups |-> groups, products |-> products, units |-> units,
             revenue |-> revenue]

\* Report::add_group(name, regex_str).
add_group(name, regex_str) ==
    /\ pc = "idle"
    /\ Len(groups) < MaxGroups
    /\ LET gs == pushed_group(groups, name, regex_str)
       IN  /\ groups' = IF gs = None THEN groups ELSE gs[1]
           /\ ret' = [op |-> "add_group", val |-> IF gs = None THEN "Err" ELSE "Ok"]
    /\ UNCHANGED <<products, units, revenue, sort_by_revenue, overflow_checks,
                   pc, rdr, entry, ledger>>

\* Report::read_groups(path): File::open, which fails for a path it cannot open.
read_groups_open ==
    /\ pc = "idle"
    /\ \E opened \in BOOLEAN :
        /\ pc' = IF opened THEN "read_groups" ELSE "idle"
        /\ rdr' = IF opened THEN [n |-> 0] ELSE << >>
        /\ entry' = IF opened THEN Snapshot ELSE << >>
        /\ ret' = [op |-> "read_groups", val |-> IF opened THEN "running" ELSE "Err"]
    /\ UNCHANGED <<groups, products, units, revenue, sort_by_revenue,
                   overflow_checks, ledger>>

\* One turn of read_groups' loop over file.lines(): split the line at " | "
\* (bail when it has none), then add_group(name, regex_str)?.
read_groups_line(line) ==
    /\ pc = "read_groups"
    /\ rdr.n < MaxLines
    /\ Len(groups) < MaxGroups
    /\ LET parts == split_once(line, <<" ", "|", " ">>)
           gs == IF parts = None THEN None
                 ELSE pushed_group(groups, parts[1][1], parts[1][2])
       IN  IF gs = None
           THEN /\ pc' = "idle"
                /\ rdr' = << >>
                /\ entry' = << >>
                /\ ret' = [op |-> "read_groups", val |-> "Err"]
                /\ UNCHANGED groups
           ELSE /\ groups' = gs[1]
                /\ rdr' = [n |-> rdr.n + 1]
                /\ UNCHANGED <<pc, entry, ret>>
    /\ UNCHANGED <<products, units, revenue, sort_by_revenue, overflow_checks,
                   ledger>>

\* The end of read_groups' loop: no line is left, Ok(()).
read_groups_eof ==
    /\ pc = "read_groups"
    /\ pc' = "idle"
    /\ rdr' = << >>
    /\ entry' = << >>
    /\ ret' = [op |-> "read_groups", val |-> "Ok"]
    /\ UNCHANGED <<groups, products, units, revenue, sort_by_revenue,
                   overflow_checks, ledger>>

\* Report::product_group(line_item), called on the report.
call_product_group(line_item) ==
    /\ pc = "idle"
    /\ ret' = [op |-> "product_group", arg |-> line_item,
               val |-> product_group(groups, line_item)]
    /\ UNCHANGED <<groups, products, units, revenue, sort_by_revenue,
                   overflow_checks, pc, rdr, entry, ledger>>

\* ------------------------------------------------------------------ records
\* The columns of a header row that a field of Record is read from.
ColumnsOf(headers, names) == {i \in 1..Len(headers) : headers[i] \in names}

Ok(x) == [ok |-> TRUE, val |-> x]
Err(e) == [ok |-> FALSE, err |-> e]

\* Deserialize one row as a Record. The csv reader rejects a row whose
\* length differs from the header's; a field of Record that two columns name
\* is a duplicate field; a quantity or price that does not parse is an
\* invalid value; a field that no column names is a missing field.
deserialize(headers, row) ==
    LET q == ColumnsOf(headers, QtyColumns)
        n == ColumnsOf(headers, NameColumns)
        p == ColumnsOf(headers, PriceColumns)
        qty == IF q = {} THEN None ELSE parse_i32(row[CHOOSE i \in q : TRUE])
        price == IF p = {} THEN None ELSE from_str(row[CHOOSE i \in p : TRUE])
    IN  IF Len(row) # Len(headers) THEN Err("UnequalLengths")
        ELSE IF Cardinality(q) > 1 \/ Cardinality(n) > 1 \/ Cardinality(p) > 1
        THEN Err("duplicate field")
        ELSE IF (q # {} /\ qty = None) \/ (p # {} /\ price = None)
        THEN Err("invalid value")
        ELSE IF q = {} \/ n = {} \/ p = {}
        THEN Err("missing field")
        ELSE Ok([qty |-> qty[1], name |-> row[CHOOSE i \in n : TRUE],
                 price |-> price[1]])

\* The display name with the group rules left out: always the item's own name.
display_name_raw(gs, name) == name

\* self.product_group(&record.name).unwrap_or(record.name)
display_name(gs, name) ==
    LET g == product_group(gs, name)
    IN  IF g = None THEN name ELSE g[1]

\* Product::default()
DefaultProduct == [units |-> 0, revenue |-> 0]

\* The body of read_csv's loop for one record, statement by statement, on a
\* report with the rules gs, the products prods and the totals tot_units and
\* tot_revenue. A build with overflow checks panics at the first statement
\* that overflows and keeps the assignments made before it; a build without
\* them wraps.
fold_record(gs, prods, tot_units, tot_revenue, record) ==
    LET name == display_name(gs, record.name)
        prod == IF name \in DOMAIN prods THEN prods[name] ELSE DefaultProduct
        s1 == I32Add(prod.units, record.qty)
        s2 == I32Add(tot_units, record.qty)
        s3 == mul(record.price, record.qty)
        s4 == add_assign(prod.revenue, s3.val)
        s5 == add_assign(tot_revenue, s3.val)
        ovf == <<s1.ovf, s2.ovf, s3.ovf, s4.ovf, s5.ovf>>
        stop == IF overflow_checks /\ \E k \in 1..5 : ovf[k]
                THEN Min({k \in 1..5 : ovf[k]})
                ELSE 6
        new == [units |-> IF stop > 1 THEN s1.val ELSE prod.units,
                revenue |-> IF stop > 4 THEN s4.val ELSE prod.revenue]
    IN  [name |-> name,
         products |-> [k \in DOMAIN prods \cup {name} |->
                          IF k = name THEN new ELSE prods[k]],
         units |-> IF stop > 2 THEN s2.val ELSE tot_units,
         revenue |-> IF stop > 5 THEN s5.val ELSE tot_revenue,
         panicked |-> stop < 6]

\* The body of read_csv's loop for one record, on this report.
fold(record) == fold_record(groups, products, units, revenue, record)

\* Report::read_csv(path): csv::Reader::from_path, which fails for a path it
\* cannot open; the first row of the file is its header row.
read_csv_open(headers) ==
    /\ pc = "idle"
    /\ BagCardinality(ledger) < MaxRecords
    /\ \E opened \in BOOLEAN :
        /\ pc' = IF opened THEN "read_csv" ELSE "idle"
        /\ rdr' = IF opened THEN [headers |-> headers, n |-> 0] ELSE << >>
        /\ entry' = IF opened THEN Snapshot ELSE << >>
        /\ ret' = IF opened THEN [op |-> "read_csv", val |-> "running"]
                  ELSE [op |-> "read_csv", val |-> "Err", err |-> "open"]
    /\ UNCHANGED <<groups, products, units, revenue, sort_by_revenue,
                   overflow_checks, ledger>>

\* One turn of read_csv's loop over rdr.deserialize(): return the error of a
\* row that does not deserialize, else fold the record into the report.
read_csv_record ==
    /\ pc = "read_csv"
    /\ rdr.n < MaxRows
    /\ BagCardinality(ledger) < MaxRecords
    /\ \E row \in RowsOf(rdr.headers) :
        LET result == deserialize(rdr.headers, row)
        IN  IF ~result.ok
            THEN /\ pc' = "idle"
                 /\ rdr' = << >>
                 /\ entry' = << >>
                 /\ ret' = [op |-> "read_csv", val |-> "Err", err |-> result.err]
                 /\ UNCHANGED <<products, units, revenue, ledger>>
            ELSE LET f == fold(result.val)
                 IN  /\ products' = f.products
                     /\ units' = f.units
                     /\ revenue' = f.revenue
                     /\ IF f.panicked
                        THEN /\ pc' = "panicked"
                             /\ rdr' = << >>
                             /\ entry' = << >>
                             /\ ret' = [op |-> "read_csv", val |-> "panic"]
                             /\ UNCHANGED ledger
                        ELSE /\ rdr' = [rdr EXCEPT !.n = @ + 1]
                             /\ ledger' = ledger (+)
                                    SetToBag({[name |-> result.val.name,
                                               qty |-> result.val.qty,
                                               price |-> result.val.price,
                                               display |-> f.name]})
                             /\ UNCHANGED <<pc, entry, ret>>
    /\ UNCHANGED <<groups, sort_by_revenue, overflow_checks>>

\* The end of read_csv's loop: no row is left, Ok(()).
read_csv_eof ==
    /\ pc = "read_csv"
    /\ pc' = "idle"
    /\ rdr' = << >>
    /\ entry' = << >>
    /\ ret' = [op |-> "read_csv", val |-> "Ok"]
    /\ UNCHANGED <<groups, products, units, revenue, sort_by_revenue,
                   overflow_checks, ledger>>

\* ------------------------------------------------------------------ sorting
\* BTreeMap::keys: the keys in ascending String order.
RECURSIVE keys(_)
keys(S) ==
    IF S = {} THEN << >>
    ELSE LET first == CHOOSE x \in S : \A y \in S \ {x} : StrLess(x, y)
         IN  <<first>> \o keys(S \ {first})

\* x put into v before the first element whose key is below x's, so after
\* every element that compares Equal to it.
insert_stable(v, x, key) ==
    LET below == {i \in 1..Len(v) : key[v[i]] < key[x]}
        at == IF below = {} THEN Len(v) + 1 ELSE Min(below)
    IN  SubSeq(v, 1, at - 1) \o <<x>> \o SubSeq(v, at, Len(v))

\* A sort that is not stable: x goes before the elements that compare Equal.
RECURSIVE sort_by_unstable(_, _)
sort_by_unstable(v, key) ==
    IF v = << >> THEN << >>
    ELSE LET rest == sort_by_unstable(SubSeq(v, 1, Len(v) - 1), key)
             x == v[Len(v)]
             notabove == {i \in 1..Len(rest) : key[rest[i]] <= key[x]}
             at == IF notabove = {} THEN Len(rest) + 1 ELSE Min(notabove)
         IN  SubSeq(rest, 1, at - 1) \o <<x>> \o SubSeq(rest, at, Len(rest))

\* slice::sort_by with the comparator |a, b| key[b].cmp(key[a]): a stable
\* sort, descending by key.
RECURSIVE sort_by(_, _)
sort_by(v, key) ==
    IF v = << >> THEN << >>
    ELSE insert_stable(sort_by(SubSeq(v, 1, Len(v) - 1), key), v[Len(v)], key)

\* Report::products_by_unit_sales
products_by_unit_sales(prods) ==
    sort_by(keys(DOMAIN prods), [k \in DOMAIN prods |-> prods[k].units])

\* Report::products_by_revenue
products_by_revenue(prods) ==
    sort_by(keys(DOMAIN prods), [k \in DOMAIN prods |-> prods[k].revenue])

Max(S) == CHOOSE x \in S : \A y \in S : x >= y

\* Display for Report: the width of the longest display name (unwrap of
\* max_by_key panics when there is none), then one row per product in the
\* selected order and the totals row.
fmt ==
    /\ pc = "idle"
    /\ IF DOMAIN products = {}
       THEN /\ pc' = "panicked"
            /\ ret' = [op |-> "fmt", val |-> "panic"]
       ELSE /\ LET width == Max({Len(name) : name \in DOMAIN products})
                   rows == IF sort_by_revenue
                           THEN products_by_revenue(products)
                           ELSE products_by_unit_sales(products)
               IN  ret' = [op |-> "fmt",
                           val |-> [width |-> width,
                                    rows |-> [i \in 1..Len(rows) |->
                                                 <<rows[i], products[rows[i]].units,
                                                   products[rows[i]].revenue>>],
                                    total |-> <<units, revenue>>]]
            /\ UNCHANGED pc
    /\ UNCHANGED <<groups, products, units, revenue, sort_by_revenue,
                   overflow_checks, rdr, entry, ledger>>

\* An assignment to the public field Report.sort_by_revenue.
set_sort_by_revenue(b) ==
    /\ pc = "idle"
    /\ sort_by_revenue # b
    /\ sort_by_revenue' = b
    /\ UNCHANGED <<groups, products, units, revenue, overflow_checks, pc, rdr,
                   entry, ledger, ret>>

Next ==
    \/ \E args \in GroupArgs : add_group(args[1], args[2])
    \/ read_groups_open
    \/ \E line \in ConfigLines : read_groups_line(line)
    \/ read_groups_eof
    \/ \E line_item \in ItemNames : call_product_group(line_item)
    \/ \E headers \in Headers : read_csv_open(headers)
    \/ read_csv_record
    \/ read_csv_eof
    \/ fmt
    \/ \E b \in BOOLEAN : set_sort_by_revenue(b)

Spec == Init /\ [][Next]_vars

\* ------------------------------------------------------------------ usd text
\* At most this many characters in an amount drawn from AmountChars.
MaxAmountLen == 4

\* The character of each decimal digit, at the digit plus one.
DigitChars == <<"0", "1", "2", "3", "4", "5", "6", "7", "8", "9">>

\* The decimal digits of n >= 0, most significant first.
RECURSIVE to_digits(_)
to_digits(n) ==
    IF n < 10 THEN <<DigitChars[n + 1]>>
    ELSE to_digits(n \div 10) \o <<DigitChars[(n % 10) + 1]>>

\* s right-aligned in a field of the given width; a longer s is kept whole.
pad_left(s, width) ==
    [i \in 1..(IF Len(s) < width THEN width - Len(s) ELSE 0) |-> " "] \o s

\* Display for Usd: f64::from(self.0) / 100.0 written as {:>12.2}. The
\* quotient is the f64 nearest to cents / 100, and its nearest decimal of two
\* places is cents / 100 itself: a sign, the whole dollars, a point and the
\* two digits of the cents, right-aligned to 12 characters.
to_string(cents) ==
    LET m == IF cents < 0 THEN -(cents + 1) ELSE cents
        carry == IF cents < 0 /\ m % 100 = 99 THEN 1 ELSE 0
        whole == (m \div 100) + carry
        frac == IF cents < 0 THEN ((m % 100) + 1) % 100 ELSE m % 100
    IN  pad_left((IF cents < 0 THEN <<"-">> ELSE << >>) \o to_digits(whole)
                 \o <<".">> \o to_digits(frac \div 10) \o to_digits(frac % 10),
                 12)

\* Characters of the amounts that are enumerated by length.
AmountChars == {"0", "5", ".", ","}

\* All strings over chars of exactly the length n.
RECURSIVE StringsOfLen(_, _)
StringsOfLen(chars, n) ==
    IF n = 0 THEN {<< >>}
    ELSE {<<c>> \o t : c \in chars, t \in StringsOfLen(chars, n - 1)}

\* The strings handed to Usd::from_str: every string of AmountChars up to
\* MaxAmountLen, and 1,000.00, 21,474,836.47 (i32::MAX cents),
\* 21,474,836.48 (one cent more) and 1234.5.
Amounts ==
    UNION {StringsOfLen(AmountChars, n) : n \in 1..MaxAmountLen}
    \cup { <<"1", ",", "0", "0", "0", ".", "0", "0">>,
           <<"2", "1", ",", "4", "7", "4", ",", "8", "3", "6", ".", "4", "7">>,
           <<"2", "1", ",", "4", "7", "4", ",", "8", "3", "6", ".", "4", "8">>,
           <<"1", "2", "3", "4", ".", "5">> }

\* Usd::from_str(s), called on its own.
call_from_str(s) ==
    /\ pc = "idle"
    /\ ret' = [op |-> "from_str", arg |-> s, val |-> from_str(s)]
    /\ UNCHANGED <<groups, products, units, revenue, sort_by_revenue,
                   overflow_checks, pc, rdr, entry, ledger>>

\* to_string() of the Usd that from_str has returned.
call_to_string ==
    /\ pc = "idle"
    /\ ret.op = "from_str"
    /\ ret.val # None
    /\ ret' = [op |-> "to_string", arg |-> ret.arg, usd |-> ret.val[1],
               val |-> to_string(ret.val[1])]
    /\ UNCHANGED <<groups, products, units, revenue, sort_by_revenue,
                   overflow_checks, pc, rdr, entry, ledger>>

\* Parsing and formatting amounts of money, with a report that stays new.
UsdNext ==
    \/ \E s \in Amounts : call_from_str(s)
    \/ call_to_string

UsdSpec == Init /\ [][UsdNext]_vars

\* ------------------------------------------------------------------ claims
\* Mathematical integers beyond 32 bits, for stating sums and products
\* exactly: five limbs to the base 2^11, least significant first. Canon is
\* the one form with the lower four limbs in 0..2^11-1.
Radix == 2 ^ 11

Limbs(v) == <<v % Radix, (v \div Radix) % Radix, v \div (Radix * Radix), 0, 0>>

LimbAdd(x, y) == [i \in 1..5 |-> x[i] + y[i]]

LimbScale(x, n) == [i \in 1..5 |-> n * x[i]]

\* The product of two i32 values, each given by its three limbs.
LimbMul(x, y) ==
    << x[1] * y[1],
       x[1] * y[2] + x[2] * y[1],
       x[1] * y[3] + x[2] * y[2] + x[3] * y[1],
       x[2] * y[3] + x[3] * y[2],
       x[3] * y[3] >>

Canon(x) ==
    LET c1 == x[1]
        c2 == x[2] + (c1 \div Radix)
        c3 == x[3] + (c2 \div Radix)
        c4 == x[4] + (c3 \div Radix)
        c5 == x[5] + (c4 \div Radix)
    IN  <<c1 % Radix, c2 % Radix, c3 % Radix, c4 % Radix, c5>>

\* The i32 v is the integer that the limbs x stand for.
ExactEq(v, x) == Canon(Limbs(v)) = Canon(x)

\* The sum of term[k] over the elements k of S, in limbs.
RECURSIVE LimbSum(_, _)
LimbSum(S, term) ==
    IF S = {} THEN Limbs(0)
    ELSE LET k == CHOOSE x \in S : TRUE
         IN  LimbAdd(term[k], LimbSum(S \ {k}, term))

\* The records folded in under the display name d, and all of them.
FoldedAs(d) == {r \in BagToSet(ledger) : r.display = d}

\* Over the records of R, each as often as it was folded in: the sum of the
\* quantities, and the sum of unit price times quantity.
SumQty(R) ==
    LimbSum(R, [r \in R |-> LimbScale(Limbs(r.qty), CopiesIn(r, ledger))])

SumPriceQty(R) ==
    LimbSum(R, [r \in R |-> LimbScale(LimbMul(Limbs(r.price), Limbs(r.qty)),
                                         CopiesIn(r, ledger))])

\* C1: after every record folded in, the grand total units is the sum of
\* the units of all products and the grand total revenue is the sum of the
\* revenue of all products.
C1_TotalsAreSums ==
    pc # "panicked" =>
        /\ ExactEq(units, LimbSum(DOMAIN products,
                [k \in DOMAIN products |-> Limbs(products[k].units)]))
        /\ ExactEq(revenue, LimbSum(DOMAIN products,
                [k \in DOMAIN products |-> Limbs(products[k].revenue)]))

\* C2: after a successful read_csv, each display name's aggregate has the
\* sum of the quantities as its units and the sum of unit price times
\* quantity as its revenue, over the records that resolved to that name.
C2_AggregatesAreSums ==
    (pc = "idle" /\ ret.op = "read_csv" /\ ret.val = "Ok") =>
        /\ DOMAIN products = {r.display : r \in BagToSet(ledger)}
        /\ \A d \in DOMAIN products :
            /\ ExactEq(products[d].units, SumQty(FoldedAs(d)))
            /\ ExactEq(products[d].revenue, SumPriceQty(FoldedAs(d)))

\* C9: adding and scaling Usd is exact: no fold of a record aborts on an
\* overflow, and every product's revenue and the grand total revenue are
\* the mathematical sum of unit price times quantity over the records.
C9_ExactMoney ==
    /\ ~(pc = "panicked" /\ ret.op = "read_csv")
    /\ pc # "panicked" =>
        /\ ExactEq(revenue, SumPriceQty(BagToSet(ledger)))
        /\ \A d \in DOMAIN products :
            ExactEq(products[d].revenue, SumPriceQty(FoldedAs(d)))

\* The rules of the report that match a line item name, by position.
Matching(name) == {i \in 1..Len(groups) : is_match(groups[i].regex, name)}

\* C3: product_group(name) returns the name of the first rule, in the order
\* the rules were added, whose pattern matches name, and None when no rule
\* matches; a later matching rule is never returned.
C3_FirstMatchWins ==
    ret.op = "product_group" =>
        LET m == Matching(ret.arg)
        IN  IF m = {} THEN ret.val = None
            ELSE ret.val = Some(groups[Min(m)].name)

\* With the rules [(A, foo), (B, foobar)], both of which match "foobar item",
\* product_group("foobar item") has returned A.
C3_Witness ==
    /\ ret.op = "product_group"
    /\ ret.arg = <<"f", "o", "o", "b", "a", "r", " ", "i", "t", "e", "m">>
    /\ Len(groups) = 2
    /\ groups[1].name = <<"A">> /\ groups[2].name = <<"B">>
    /\ Matching(ret.arg) = {1, 2}
    /\ ret.val = Some(<<"A">>)

\* The record that a step of read_csv has folded in.
Folded == CHOOSE r \in BagToSet(ledger' (-) ledger) : TRUE

\* C4: a record whose item name matches no rule (or when there are no
\* rules) is aggregated under its own name; when a rule matches it is
\* aggregated under the first matching group's name, and the record creates
\* no other entry and changes no other entry.
C4_DisplayName ==
    [][ledger' # ledger =>
        LET m == Matching(Folded.name)
            key == IF m = {} THEN Folded.name ELSE groups[Min(m)].name
            before == IF key \in DOMAIN products THEN products[key].units ELSE 0
        IN  /\ DOMAIN products' = DOMAIN products \cup {key}
            /\ \A k \in DOMAIN products \ {key} : products'[k] = products[k]
            /\ products'[key].units = I32Add(before, Folded.qty).val]_vars

\* A record has been aggregated under its own name and another under a
\* group's name, with no entry for the second record's item name.
C4_Witness ==
    \E r1, r2 \in BagToSet(ledger) :
        /\ r1.display = r1.name /\ r1.name \in DOMAIN products
        /\ r2.display # r2.name /\ r2.display \in DOMAIN products
        /\ r2.name \notin DOMAIN products

\* v lists every key of prods once, descending by key, equal keys in
\* ascending order of the name.
Ordered(v, prods, key) ==
    /\ Len(v) = Cardinality(DOMAIN prods)
    /\ {v[i] : i \in 1..Len(v)} = DOMAIN prods
    /\ \A i, j \in 1..Len(v) :
        i < j => \/ key[v[i]] > key[v[j]]
                 \/ (key[v[i]] = key[v[j]] /\ StrLess(v[i], v[j]))

\* C5: products_by_unit_sales and products_by_revenue each return a
\* permutation of the display names, descending by units (by revenue), names
\* of equal units (revenue) in ascending order.
C5_SortedPermutation ==
    /\ Ordered(products_by_unit_sales(products), products,
               [k \in DOMAIN products |-> products[k].units])
    /\ Ordered(products_by_revenue(products), products,
               [k \in DOMAIN products |-> products[k].revenue])

\* The report has been rendered with three products of which two have equal
\* units and two have equal revenue, and a product that sells more than
\* another one sorts after it by name.
C5_Witness ==
    /\ ret.op = "fmt"
    /\ pc = "idle"
    /\ Cardinality(DOMAIN products) >= 3
    /\ \E a, b, c \in DOMAIN products :
        /\ a # b /\ products[a].units = products[b].units
        /\ StrLess(a, c) /\ products[c].units > products[a].units
    /\ \E a, b \in DOMAIN products :
        a # b /\ products[a].revenue = products[b].revenue

\* C6: when read_groups fails on a line without the " | " delimiter or with
\* an invalid regex, the report's rule list is what it was before the call.
C6_NoPartialRules ==
    [][(pc = "read_groups" /\ ret'.val = "Err") => groups' = entry.groups]_vars

\* C7: when read_csv fails on a malformed row, the product mapping and the
\* grand totals are what they were before the call: the rows before the bad
\* row have contributed nothing.
C7_NoPartialReport ==
    [][(pc = "read_csv" /\ ret'.val = "Err") =>
        /\ products' = entry.products
        /\ units' = entry.units
        /\ revenue' = entry.revenue]_vars

\* C8: rendering a report never panics, also when it has no products.
C8_RenderNeverPanics == ~(pc = "panicked" /\ ret.op = "fmt")

\* C10: a row of a file whose header has no quantity column is not rejected
\* for the missing quantity: it is folded in as a record of quantity 1,
\* adding one unit and one unit price to the totals.
C10_QuantityDefaultsToOne ==
    [][(/\ pc = "read_csv"
        /\ ColumnsOf(rdr.headers, QtyColumns) = {}
        /\ ret'.val # "Ok") =>
        IF ret'.val = "Err" THEN ret'.err # "missing field"
        ELSE /\ ledger' # ledger
             /\ Folded.qty = 1
             /\ units' = I32Add(units, 1).val
             /\ revenue' = I32Add(revenue, Folded.price).val]_vars

\* The characters of s before the first '.', and those after it.
IntPart(s) ==
    LET parts == split_once(s, <<".">>) IN IF parts = None THEN s ELSE parts[1][1]

FracPart(s) ==
    LET parts == split_once(s, <<".">>) IN IF parts = None THEN << >> ELSE parts[1][2]

\* s is a decimal amount: whole digits, either without ',' or with one ','
\* before each group of three, and at most one '.' with at most two digits
\* after it.
IsDecimal(s) ==
    LET int == IntPart(s)
        frac == FracPart(s)
        L == Len(int)
    IN  /\ L > 0
        /\ \/ \A i \in 1..L : IsDigit(int[i])
           \/ \A i \in 1..L : IF (L - i) % 4 = 3 /\ i > 1 THEN int[i] = ","
                              ELSE IsDigit(int[i])
        /\ Len(frac) <= 2
        /\ \A i \in 1..Len(frac) : IsDigit(frac[i])

\* s without its leading characters c, down to one character at least.
RECURSIVE StripLeading(_, _)
StripLeading(s, c) ==
    IF Len(s) > 1 /\ Head(s) = c THEN StripLeading(Tail(s), c) ELSE s

\* The canonical form of the amount that the decimal s denotes: the whole
\* digits without separators and leading zeros, a point, two digits.
Canonical(s) ==
    LET frac == FracPart(s)
    IN  StripLeading(replace(IntPart(s), {","}), "0") \o <<".">>
        \o frac \o [i \in 1..(2 - Len(frac)) |-> "0"]

\* The text of a Usd without the padding to its left.
RECURSIVE trim_start(_)
trim_start(s) ==
    IF s # << >> /\ Head(s) = " " THEN trim_start(Tail(s)) ELSE s

\* C11: for every decimal amount s that Usd::from_str accepts, the text of
\* the parsed value is the canonical two-decimal form of the amount that s
\* denotes: "5" gives 5.00, "5.5" and "5.50" give 5.50.
C11_RoundTripCanonical ==
    (ret.op = "to_string" /\ IsDecimal(ret.arg)) =>
        trim_start(ret.val) = Canonical(ret.arg)

\* The same for the amounts written with exactly two digits after the point.
TwoDecimalsRoundTrip ==
    (ret.op = "to_string" /\ IsDecimal(ret.arg) /\ Len(FracPart(ret.arg)) = 2) =>
        trim_start(ret.val) = Canonical(ret.arg)

\* What a run of folds ends in: a report, or a panic in one of the folds.
Ended(prods, tot_units, tot_revenue) ==
    [panicked |-> FALSE, products |-> prods, units |-> tot_units,
     revenue |-> tot_revenue]

Aborted == [panicked |-> TRUE, products |-> << >>, units |-> 0, revenue |-> 0]

\* Every end of folding the records of the bag B, each as often as B holds
\* it, into the report rep under the rules of this report: one per order.
RECURSIVE Outcomes(_, _)
Outcomes(B, rep) ==
    IF B = EmptyBag THEN {rep}
    ELSE UNION { LET f == fold_record(groups, rep.products, rep.units,
                                      rep.revenue, r)
                 IN  IF f.panicked THEN {Aborted}
                     ELSE Outcomes(B (-) SetToBag({r}),
                                   Ended(f.products, f.units, f.revenue))
                 : r \in BagToSet(B) }

\* The rules of this report resolve every folded record as it was resolved.
RulesFixed ==
    \A r \in BagToSet(ledger) : r.display = display_name(groups, r.name)

\* C12: for a fixed rule list, the products and the grand totals that
\* read_csv has produced do not depend on the order of the files or of the
\* rows: folding the records read so far into a new report, in any order,
\* ends in this report.
C12_OrderIndependent ==
    (pc = "idle" /\ ret.op = "read_csv" /\ ret.val = "Ok" /\ RulesFixed) =>
        Outcomes(ledger, Ended(<< >>, 0, 0)) = {Ended(products, units, revenue)}

\* The same in a build without overflow checks, where every fold wraps.
WrappingOrderIndependent == ~overflow_checks => C12_OrderIndependent

\* C13: the rule list is fixed before aggregation starts: once read_csv has
\* processed a first record, no add_group and no read_groups step changes
\* the rule list.
C13_RulesFixedAfterFirstRecord ==
    [][ledger # EmptyBag => groups' = groups]_vars

====
